---- MODULE Spec2Model ----
(***************************************************************************)
(* A model of jpgicc (src/utils/jpgicc/jpgicc.c): the ICC profile applier  *)
(* for JPEG files.  The state is the program's globals (option flags, the  *)
(* decompressor and compressor objects), the locals of TransformImage and  *)
(* DoTransform, and the position of main.  Bytes are naturals 0..255,      *)
(* marker payloads are sequences of bytes (index k of the C array is       *)
(* element k+1 of the sequence).                                           *)
(***************************************************************************)
EXTENDS Integers, Sequences, FiniteSets, TLC

(***************************************************************************)
(* Bounds of the model.                                                    *)
(***************************************************************************)
MaxHeight == 2
MaxMarkers == 2
MaxNameLen == 2
MaxSkipLen == 1
\* Most profile switches on a command line that tries their orders.
MaxSwitches == 3
\* Largest denominator of the Lab values given to the fax encoder.
MaxDenominator == 3

(***************************************************************************)
(* Program constants.                                                      *)
(***************************************************************************)
JPEG_APP0 == 224
GRID_POINTS == 33
PT_GRAY == 3
PT_RGB == 4
PT_CMY == 5
PT_CMYK == 6
PT_YCbCr == 7
PT_YUV == 8
PT_XYZ == 9
PT_Lab == 10
ResolutionInfo == 1005
MinResolutionLen == 16
FirstResource == 14
FaxMarkerLen == 10
DefaultQuality == 75
DefaultPrecalcMode == 1

NULL == "NULL"

(***************************************************************************)
(* Bit operations on naturals, as C's << >> | & on unsigned words.         *)
(***************************************************************************)
Shl(a, n) == a * (2 ^ n)
Shr(a, n) == a \div (2 ^ n)

RECURSIVE BitOr(_, _)
BitOr(a, b) ==
    IF a = 0 THEN b
    ELSE IF b = 0 THEN a
    ELSE (IF (a % 2 = 1) \/ (b % 2 = 1) THEN 1 ELSE 0)
         + 2 * BitOr(a \div 2, b \div 2)

RECURSIVE BitAnd(_, _)
BitAnd(a, b) ==
    IF a = 0 \/ b = 0 THEN 0
    ELSE (IF (a % 2 = 1) /\ (b % 2 = 1) THEN 1 ELSE 0)
         + 2 * BitAnd(a \div 2, b \div 2)

(***************************************************************************)
(* The pixel format word (lcms2.h): the fields the program packs and reads.*)
(***************************************************************************)
COLORSPACE_SH(s) == Shl(s, 16)
FLAVOR_SH(s) == Shl(s, 13)
PLANAR_SH(p) == Shl(p, 12)
EXTRA_SH(e) == Shl(e, 7)
CHANNELS_SH(c) == Shl(c, 3)
BYTES_SH(b) == b

T_COLORSPACE(w) == BitAnd(Shr(w, 16), 31)
T_FLAVOR(w) == BitAnd(Shr(w, 13), 1)
T_PLANAR(w) == BitAnd(Shr(w, 12), 1)
T_EXTRA(w) == BitAnd(Shr(w, 7), 7)
T_CHANNELS(w) == BitAnd(Shr(w, 3), 15)
T_BYTES(w) == BitAnd(w, 7)

(***************************************************************************)
(* ICC color space signatures and their lcms color space numbers.          *)
(***************************************************************************)
_cmsICCcolorSpace(pt) ==
    CASE pt = PT_GRAY  -> "GrayData"
      [] pt = PT_RGB   -> "RgbData"
      [] pt = PT_CMY   -> "CmyData"
      [] pt = PT_CMYK  -> "CmykData"
      [] pt = PT_YCbCr -> "YCbCrData"
      [] pt = PT_YUV   -> "LuvData"
      [] pt = PT_XYZ   -> "XYZData"
      [] pt = PT_Lab   -> "LabData"
      [] OTHER         -> "BadSignature"

_cmsLCMScolorSpace(sig) ==
    CASE sig = "GrayData"  -> PT_GRAY
      [] sig = "RgbData"   -> PT_RGB
      [] sig = "CmyData"   -> PT_CMY
      [] sig = "CmykData"  -> PT_CMYK
      [] sig = "YCbCrData" -> PT_YCbCr
      [] sig = "LuvData"   -> PT_YUV
      [] sig = "XYZData"   -> PT_XYZ
      [] sig = "LabData"   -> PT_Lab
      [] OTHER             -> 0

(***************************************************************************)
(* Byte strings the program compares marker payloads with.                 *)
(***************************************************************************)
G3FAX == <<71, 51, 70, 65, 88, 0>>
JFIF == <<74, 70, 73, 70, 0>>
Adobe == <<65, 100, 111, 98, 101>>
Photoshop == <<80, 104, 111, 116, 111, 115, 104, 111, 112>>
EightBIM == <<56, 66, 73, 77>>

Prefix(data, n) == SubSeq(data, 1, n)

(***************************************************************************)
(* IsITUFax: some APP1 marker longer than 5 bytes holds the C string       *)
(* "G3FAX" (strcmp compares up to and including the terminating zero).     *)
(***************************************************************************)
RECURSIVE IsITUFax(_)
IsITUFax(ptr) ==
    IF ptr = <<>> THEN FALSE
    ELSE IF Head(ptr).marker = JPEG_APP0 + 1
            /\ Len(Head(ptr).data) > 5
            /\ Prefix(Head(ptr).data, 6) = G3FAX
         THEN TRUE
         ELSE IsITUFax(Tail(ptr))

(***************************************************************************)
(* SetITUFax.  The array Marker is initialised from a C string literal:    *)
(* the literal's source characters are decoded as the C language decodes   *)
(* them (a \x escape takes every hexadecimal digit that follows, an octal  *)
(* escape takes at most three octal digits), and a zero is appended.       *)
(***************************************************************************)
SetITUFaxLiteral ==
    << "G", "3", "F", "A", "X", "\\", "x", "0", "0", "\\", "0", "x", "0", "7",
       "\\", "x", "C", "A", "\\", "x", "0", "0", "\\", "x", "C", "8" >>

HexDigits ==
    [c \in {"0", "1", "2", "3", "4", "5", "6", "7", "8", "9",
            "A", "B", "C", "D", "E", "F"} |->
        CASE c = "A" -> 10 [] c = "B" -> 11 [] c = "C" -> 12
          [] c = "D" -> 13 [] c = "E" -> 14 [] c = "F" -> 15
          [] c = "0" -> 0 [] c = "1" -> 1 [] c = "2" -> 2 [] c = "3" -> 3
          [] c = "4" -> 4 [] c = "5" -> 5 [] c = "6" -> 6 [] c = "7" -> 7
          [] c = "8" -> 8 [] c = "9" -> 9]

IsHexDigit(c) == c \in DOMAIN HexDigits
IsOctDigit(c) == c \in {"0", "1", "2", "3", "4", "5", "6", "7"}

CharCode(c) ==
    CASE c = "G" -> 71 [] c = "X" -> 88 [] c = "x" -> 120
      [] c \in {"0", "1", "2", "3", "4", "5", "6", "7", "8", "9"}
            -> 48 + HexDigits[c]
      [] c \in {"A", "B", "C", "D", "E", "F"} -> 55 + HexDigits[c]

\* The number of characters from position p on that satisfy the digit test,
\* at most max of them.
RECURSIVE HexRun(_, _)
HexRun(src, p) ==
    IF p <= Len(src) /\ IsHexDigit(src[p]) THEN 1 + HexRun(src, p + 1) ELSE 0

RECURSIVE OctRun(_, _, _)
OctRun(src, p, max) ==
    IF max > 0 /\ p <= Len(src) /\ IsOctDigit(src[p])
    THEN 1 + OctRun(src, p + 1, max - 1) ELSE 0

RECURSIVE DigitsValue(_, _, _, _)
DigitsValue(src, p, n, base) ==
    IF n = 0 THEN 0
    ELSE DigitsValue(src, p, n - 1, base) * base + HexDigits[src[p + n - 1]]

RECURSIVE CStringLiteral(_, _)
CStringLiteral(src, p) ==
    IF p > Len(src) THEN <<0>>
    ELSE IF src[p] # "\\" THEN <<CharCode(src[p])>> \o CStringLiteral(src, p + 1)
    ELSE IF src[p + 1] = "x"
         THEN LET n == HexRun(src, p + 2)
              IN  <<DigitsValue(src, p + 2, n, 16) % 256>>
                    \o CStringLiteral(src, p + 2 + n)
         ELSE LET n == OctRun(src, p + 1, 3)
              IN  <<DigitsValue(src, p + 1, n, 8) % 256>>
                    \o CStringLiteral(src, p + 1 + n)

\* The marker SetITUFax hands to jpeg_write_marker: tag APP1, the first ten
\* bytes of the array.
SetITUFax ==
    [marker |-> JPEG_APP0 + 1,
     data |-> Prefix(CStringLiteral(SetITUFaxLiteral, 1), FaxMarkerLen)]

(***************************************************************************)
(* jcopy_markers_execute: the markers written, in the order of the list.   *)
(***************************************************************************)
\* RejectJFIF without the test of the marker's tag.
RejectJFIF_AnyTag(m, write_JFIF_header) ==
    /\ write_JFIF_header
    /\ Len(m.data) >= 5
    /\ Prefix(m.data, 5) = JFIF

RejectJFIF(m, write_JFIF_header) ==
    /\ write_JFIF_header
    /\ m.marker = JPEG_APP0
    /\ Len(m.data) >= 5
    /\ Prefix(m.data, 5) = JFIF

RejectAdobe(m, write_Adobe_marker) ==
    /\ write_Adobe_marker
    /\ m.marker = JPEG_APP0 + 14
    /\ Len(m.data) >= 5
    /\ Prefix(m.data, 5) = Adobe

RECURSIVE jcopy_markers_execute(_, _, _)
jcopy_markers_execute(marker_list, write_JFIF_header, write_Adobe_marker) ==
    IF marker_list = <<>> THEN <<>>
    ELSE LET m == Head(marker_list)
             rest == jcopy_markers_execute(Tail(marker_list),
                                           write_JFIF_header, write_Adobe_marker)
         IN  IF RejectJFIF(m, write_JFIF_header) THEN rest
             ELSE IF RejectAdobe(m, write_Adobe_marker) THEN rest
             ELSE <<[marker |-> m.marker, data |-> m.data]>> \o rest

(***************************************************************************)
(* The Photoshop APP13 resource parser.                                    *)
(*                                                                         *)
(* Rd is the read data[k].  A read outside 0..datalen-1 is undefined in C; *)
(* it yields the byte junk, which the caller chooses.  GETJOCTET is        *)
(* jmorecfg.h's macro for a build whose JOCTET is unsigned char.           *)
(***************************************************************************)
GETJOCTET(value) == value

Rd(data, k, junk) == IF k >= 0 /\ k < Len(data) THEN data[k + 1] ELSE junk

\* GETJOCTET(data[k]<<8) + GETJOCTET(data[k+1])
Word16(data, k, junk) ==
    GETJOCTET(Shl(Rd(data, k, junk), 8)) + GETJOCTET(Rd(data, k + 1, junk))

\* The 4-byte size field, computed in a 32-bit int: a first byte of 128 or
\* more overflows the int, which wraps to a negative value.
Size32(data, k, junk) ==
    LET d0 == Rd(data, k, junk)
        hi == IF d0 >= 128 THEN d0 - 256 ELSE d0
    IN  ((hi * 256 + Rd(data, k + 1, junk)) * 256 + Rd(data, k + 2, junk)) * 256
          + Rd(data, k + 3, junk)

\* The number of binary digits of a positive integer.
RECURSIVE BitLength(_)
BitLength(n) == IF n = 0 THEN 0 ELSE 1 + BitLength(n \div 2)

\* PS_FIXED_TO_FLOAT(h, l): (float) h + (float) l / 65536 in single precision
\* (24 significant bits, round to nearest, ties to even).  The result is the
\* float whose value is int + frac / 65536.
PS_FIXED_TO_FLOAT(h, l) ==
    LET width == BitLength(h)
        drop  == IF width > 8 THEN width - 8 ELSE 0
        unit  == 2 ^ drop
        q     == l \div unit
        r     == l % unit
        up    == drop > 0 /\ (2 * r > unit \/ (2 * r = unit /\ q % 2 = 1))
        kept  == (IF up THEN q + 1 ELSE q) * unit
    IN  IF kept = 65536 THEN [int |-> h + 1, frac |-> 0]
        ELSE [int |-> h, frac |-> kept]

\* The cast (int) of a float, stored in a 16-bit density field.
IntOfFloat(f) == f.int % 65536

\* The indexes the signature test reads: && stops at the first mismatch.
SignatureReads(data, i, junk) ==
    {i} \cup (IF Rd(data, i, junk) = EightBIM[1] THEN {i + 1} ELSE {})
        \cup (IF Rd(data, i, junk) = EightBIM[1]
                 /\ Rd(data, i + 1, junk) = EightBIM[2] THEN {i + 2} ELSE {})
        \cup (IF Rd(data, i, junk) = EightBIM[1]
                 /\ Rd(data, i + 1, junk) = EightBIM[2]
                 /\ Rd(data, i + 2, junk) = EightBIM[3] THEN {i + 3} ELSE {})

SignatureMatches(data, i, junk) ==
    /\ Rd(data, i, junk) = EightBIM[1]
    /\ Rd(data, i + 1, junk) = EightBIM[2]
    /\ Rd(data, i + 2, junk) = EightBIM[3]
    /\ Rd(data, i + 3, junk) = EightBIM[4]

\* One run of the for loop from offset i.  offsets is the sequence of values
\* i had at the loop head so far, reads the set of indexes read so far.  The
\* loop never ends when i takes a value it already had (the data does not
\* change): hang records that.
RECURSIVE PSLoop(_, _, _, _, _, _)
PSLoop(data, datalen, junk, i, offsets, reads) ==
    IF ~(i < datalen)
    THEN [ret |-> FALSE, hang |-> FALSE, X |-> 0, Y |-> 0,
          offsets |-> offsets, reads |-> reads]
    ELSE IF \E n \in 1..Len(offsets) : offsets[n] = i
    THEN [ret |-> FALSE, hang |-> TRUE, X |-> 0, Y |-> 0,
          offsets |-> Append(offsets, i), reads |-> reads]
    ELSE IF ~SignatureMatches(data, i, junk)
    THEN [ret |-> FALSE, hang |-> FALSE, X |-> 0, Y |-> 0,
          offsets |-> Append(offsets, i),
          reads |-> reads \cup SignatureReads(data, i, junk)]
    ELSE LET iType == i + 4
             type  == Word16(data, iType, junk)
             iName == iType + 2
             nlen  == GETJOCTET(Rd(data, iName, junk))
             iSize == iName + nlen + (IF BitAnd(nlen, 1) = 1 THEN 1 ELSE 2)
             len   == Size32(data, iSize, junk)
             iData == iSize + 4
             rd    == reads \cup (i .. iName) \cup (iSize .. iSize + 3)
         IN  IF type = ResolutionInfo /\ len >= MinResolutionLen
             THEN [ret |-> TRUE, hang |-> FALSE,
                   X |-> IntOfFloat(PS_FIXED_TO_FLOAT(Word16(data, iData, junk),
                                                      Word16(data, iData + 2, junk))),
                   Y |-> IntOfFloat(PS_FIXED_TO_FLOAT(Word16(data, iData + 8, junk),
                                                      Word16(data, iData + 10, junk))),
                   offsets |-> Append(offsets, i),
                   reads |-> rd \cup (iData .. iData + 3)
                                \cup (iData + 8 .. iData + 11)]
             ELSE PSLoop(data, datalen, junk,
                         iData + len + (IF len % 2 = 1 THEN 1 ELSE 0),
                         Append(offsets, i), rd)

ProcessPhotoshopAPP13(data, datalen, junk) ==
    PSLoop(data, datalen, junk, FirstResource, <<>>, {})

\* HandlePhotoshopAPP13: the first APP13 marker longer than 9 bytes that starts
\* with "Photoshop" is parsed and TRUE is returned whatever the parse found.
NoScan ==
    [ret |-> FALSE, hang |-> FALSE, X |-> 0, Y |-> 0, offsets |-> <<>>, reads |-> {}]

RECURSIVE HandlePhotoshopAPP13(_, _)
HandlePhotoshopAPP13(ptr, junk) ==
    IF ptr = <<>> THEN [handled |-> FALSE, datalen |-> 0, scan |-> NoScan]
    ELSE IF Head(ptr).marker = JPEG_APP0 + 13
            /\ Len(Head(ptr).data) > 9
            /\ Prefix(Head(ptr).data, 9) = Photoshop
         THEN [handled |-> TRUE, datalen |-> Len(Head(ptr).data),
               scan |-> ProcessPhotoshopAPP13(Head(ptr).data, Len(Head(ptr).data), junk)]
         ELSE HandlePhotoshopAPP13(Tail(ptr), junk)

(***************************************************************************)
(* The fax codec and the samplers of the virtual profiles.  A double is    *)
(* modelled by the rational n / d (d > 0) it holds when no operation       *)
(* rounds; a cmsCIELab is a record of three of them.                       *)
(***************************************************************************)
Rat(n, d) == [n |-> n, d |-> d]

RECURSIVE GCD(_, _)
GCD(x, y) == IF y = 0 THEN x ELSE GCD(y, x % y)

\* n / d in lowest terms with a positive denominator.
Reduced(n, d) ==
    LET Abs(x) == IF x < 0 THEN 0 - x ELSE x
        g == GCD(Abs(n), Abs(d))
        sign == IF d < 0 THEN 0 - 1 ELSE 1
    IN  Rat(sign * (n \div g), sign * (d \div g))

RatLess(x, y) == x.n * y.d < y.n * x.d
RatNeg(x) == Rat(0 - x.n, x.d)

\* k * x / y for an integer k and rationals x, y with y not 0.
RatScaled(k, x, y) ==
    LET top == Reduced(k * x.n, y.n)
        low == Reduced(y.d, x.d)
    IN  Reduced(top.n * low.n, top.d * low.d)

ZeroLab == [L |-> Rat(0, 1), a |-> Rat(0, 1), b |-> Rat(0, 1)]

\* x * y = q * z + r with 0 <= r < z, for y >= 0 and z > 0, computed on the
\* binary digits of y so that no product is wider than 31 bits.
RECURSIVE MulDivMod(_, _, _)
MulDivMod(x, y, z) ==
    IF y = 0 THEN [q |-> 0, r |-> 0]
    ELSE LET h == MulDivMod(x, y \div 2, z)
             t == 2 * h.r + (y % 2) * x
         IN  [q |-> 2 * h.q + (t \div z), r |-> t % z]

\* floor((v / scale) * 65535. + offset) with a rounding in place of the floor.
FaxEncode_Rounded(v, scale, offset) ==
    LET h == MulDivMod(v.n, 65535, scale * v.d)
    IN  offset + h.q + (IF 2 * h.r >= scale * v.d THEN 1 ELSE 0)

\* floor((v / scale) * 65535. + offset), one line of Lab2ITU.
FaxEncode(v, scale, offset) == offset + MulDivMod(v.n, 65535, scale * v.d).q

\* The cast (cmsUInt16Number) of a double.  For a value outside 0..65535 the
\* conversion is undefined: a build wraps it or saturates it.
Conversions == {"wrap", "saturate"}
Cast16(x, conv) ==
    IF x >= 0 /\ x <= 65535 THEN x
    ELSE IF conv = "wrap" THEN x % 65536
    ELSE IF x < 0 THEN 0 ELSE 65535

ITU2Lab(In) ==
    [L |-> Rat(In[1] * 100, 65535),
     a |-> Rat(170 * (In[2] - 32768), 65535),
     b |-> Rat(200 * (In[3] - 24576), 65535)]

Lab2ITU(lab, conv) ==
    <<Cast16(FaxEncode(lab.L, 100, 0), conv),
      Cast16(FaxEncode(lab.a, 170, 32768), conv),
      Cast16(FaxEncode(lab.b, 200, 24576), conv)>>

\* cmsLabEncoded2Float: the ICC v4 16-bit encoding of Lab.
cmsLabEncoded2Float(wLab) ==
    [L |-> Rat(wLab[1] * 100, 65535),
     a |-> Rat(wLab[2] - 32896, 257),
     b |-> Rat(wLab[3] - 32896, 257)]

\* cmsDesaturateLab: L below 0 gives black, L above 100 is clamped; a color
\* outside the a, b limits is moved along its hue line onto the limit of the
\* 90-degree hue zone it lies in.
HueZone(a, b) ==
    LET zero == Rat(0, 1)
    IN  IF RatLess(zero, a) /\ ((~RatLess(b, zero) /\ RatLess(b, a))
                                 \/ (RatLess(b, zero) /\ ~RatLess(a, RatNeg(b))))
        THEN "amax"
        ELSE IF RatLess(zero, b) /\ ((RatLess(zero, a) /\ ~RatLess(b, a))
                                      \/ (RatLess(a, zero) /\ RatLess(RatNeg(a), b)))
        THEN "bmax"
        ELSE IF RatLess(a, zero) /\ ((~RatLess(b, zero) /\ ~RatLess(RatNeg(a), b))
                                      \/ (RatLess(b, zero) /\ RatLess(RatNeg(b), RatNeg(a))))
        THEN "amin"
        ELSE "bmin"

cmsDesaturateLab(lab, amax, amin, bmax, bmin) ==
    LET zero == Rat(0, 1)
        L == IF RatLess(Rat(100, 1), lab.L) THEN Rat(100, 1) ELSE lab.L
        outside == \/ RatLess(lab.a, Rat(amin, 1)) \/ RatLess(Rat(amax, 1), lab.a)
                   \/ RatLess(lab.b, Rat(bmin, 1)) \/ RatLess(Rat(bmax, 1), lab.b)
        zone == HueZone(lab.a, lab.b)
    IN  IF RatLess(lab.L, zero) THEN ZeroLab
        ELSE IF ~outside THEN [L |-> L, a |-> lab.a, b |-> lab.b]
        ELSE IF lab.a.n = 0
             THEN [L |-> L, a |-> lab.a,
                   b |-> IF RatLess(lab.b, zero) THEN Rat(bmin, 1) ELSE Rat(bmax, 1)]
        ELSE CASE zone = "amax" ->
                    [L |-> L, a |-> Rat(amax, 1), b |-> RatScaled(amax, lab.b, lab.a)]
               [] zone = "bmax" ->
                    [L |-> L, a |-> RatScaled(bmax, lab.a, lab.b), b |-> Rat(bmax, 1)]
               [] zone = "amin" ->
                    [L |-> L, a |-> Rat(amin, 1), b |-> RatScaled(amin, lab.b, lab.a)]
               [] OTHER ->
                    [L |-> L, a |-> RatScaled(bmin, lab.a, lab.b), b |-> Rat(bmin, 1)]

\* PCS2ITU: the sampler of the inverse virtual profile.
PCS2ITU(In, conv) ==
    LET lab == cmsDesaturateLab(cmsLabEncoded2Float(In), 85, 0 - 85, 125, 0 - 75)
    IN  [Lab |-> lab, Out |-> Lab2ITU(lab, conv)]

(***************************************************************************)
(* Profiles.  A profile handle is a record of what the program asks of it: *)
(* its color space and PCS signatures and its device class; origin tells   *)
(* where it came from, nodes how many nodes the CLUT of a synthesized      *)
(* profile's tag has (0 with no such tag).  NullProfile is the NULL handle.*)
(***************************************************************************)
NullProfile ==
    [origin |-> NULL, ColorSpace |-> "none", PCS |-> "none", Class |-> "none", nodes |-> 0]

Profile(origin, cs, pcs, class) ==
    [origin |-> origin, ColorSpace |-> cs, PCS |-> pcs, Class |-> class, nodes |-> 0]

\* The profile files of the file system the program runs on; any other name
\* cannot be opened.
ProfileNames ==
    {"gray.icc", "rgb.icc", "cmyk.icc", "lab.icc", "xyz.icc",
     "rgb2cmyk.icc", "cmyk2cmyk.icc"}

cmsOpenProfileFromFile(name) ==
    CASE name = "gray.icc"      -> Profile("file:gray.icc", "GrayData", "XYZData", "mntr")
      [] name = "rgb.icc"       -> Profile("file:rgb.icc", "RgbData", "XYZData", "mntr")
      [] name = "cmyk.icc"      -> Profile("file:cmyk.icc", "CmykData", "LabData", "prtr")
      [] name = "lab.icc"       -> Profile("file:lab.icc", "LabData", "LabData", "abst")
      [] name = "xyz.icc"       -> Profile("file:xyz.icc", "XYZData", "XYZData", "abst")
      [] name = "rgb2cmyk.icc"  -> Profile("file:rgb2cmyk.icc", "RgbData", "CmykData", "link")
      [] name = "cmyk2cmyk.icc" -> Profile("file:cmyk2cmyk.icc", "CmykData", "CmykData", "link")
      [] OTHER                  -> NullProfile

\* The profile embedded in the source image, as cmsOpenProfileFromMem opens it.
cmsOpenProfileFromMem(icc) ==
    CASE icc = "gray" -> Profile("embedded", "GrayData", "XYZData", "mntr")
      [] icc = "rgb"  -> Profile("embedded", "RgbData", "XYZData", "mntr")
      [] icc = "cmyk" -> Profile("embedded", "CmykData", "LabData", "prtr")
      [] icc = "lab"  -> Profile("embedded", "LabData", "LabData", "abst")
      [] OTHER        -> NullProfile

\* OpenStockProfile(0, File): with no file name the default profile, which
\* the program documents as sRGB; the call is given nothing else to choose by.
OpenStockProfile(File) ==
    IF File = NULL THEN Profile("stock:sRGB", "RgbData", "XYZData", "mntr")
    ELSE cmsOpenProfileFromFile(File)

\* cmsstrcasecmp(name, "*lab") == 0
IsLabName(name) == name \in {"*Lab", "*lab", "*LAB"}

\* The virtual profiles.  alloc tells which of the three allocations of the
\* synthesis succeed, and whether cmsWriteTag, which stores a copy of the
\* pipeline and whose result is not looked at, succeeds.
AllocOutcomes ==
    {[pipeline |-> TRUE, stage |-> TRUE, placeholder |-> TRUE, tag |-> TRUE],
     [pipeline |-> FALSE, stage |-> TRUE, placeholder |-> TRUE, tag |-> TRUE],
     [pipeline |-> TRUE, stage |-> FALSE, placeholder |-> TRUE, tag |-> TRUE],
     [pipeline |-> TRUE, stage |-> TRUE, placeholder |-> FALSE, tag |-> TRUE],
     [pipeline |-> TRUE, stage |-> TRUE, placeholder |-> TRUE, tag |-> FALSE]}

\* cmsStageAllocCLut16bit(0, GRID_POINTS, 3, 3, NULL): the nodes of the CLUT.
CLutNodes == GRID_POINTS * GRID_POINTS * GRID_POINTS

\* cmsWriteTag and the three header fields set on the placeholder.
WriteTag(hProfile, alloc) ==
    IF alloc.tag THEN [hProfile EXCEPT !.nodes = CLutNodes] ELSE hProfile

CreateITU2PCS_ICC(alloc) ==
    IF ~alloc.pipeline THEN NullProfile
    ELSE IF ~alloc.stage THEN NullProfile
    ELSE IF ~alloc.placeholder THEN NullProfile
    ELSE WriteTag(Profile("ITU2PCS", "LabData", "LabData", "spac"), alloc)

CreatePCS2ITU_ICC(alloc) ==
    IF ~alloc.pipeline THEN NullProfile
    ELSE IF ~alloc.stage THEN NullProfile
    ELSE IF ~alloc.placeholder THEN NullProfile
    ELSE WriteTag(Profile("PCS2ITU", "LabData", "LabData", "spac"), alloc)

GetProfileColorSpace(hProfile) == _cmsLCMScolorSpace(hProfile.ColorSpace)
GetDevicelinkColorSpace(hProfile) == _cmsLCMScolorSpace(hProfile.PCS)

(***************************************************************************)
(* Pixel format descriptors.                                               *)
(***************************************************************************)
\* GetInputPixelType's switch: the lcms color space of a JPEG color space,
\* 0 for one the switch does not know.
InputSpace(isFax, jpeg_color_space) ==
    IF isFax THEN PT_Lab
    ELSE CASE jpeg_color_space = "JCS_GRAYSCALE" -> PT_GRAY
           [] jpeg_color_space = "JCS_RGB"       -> PT_RGB
           [] jpeg_color_space = "JCS_YCbCr"     -> PT_RGB
           [] jpeg_color_space = "JCS_CMYK"      -> PT_CMYK
           [] jpeg_color_space = "JCS_YCCK"      -> PT_CMYK
           [] OTHER                              -> 0

InputOutColorSpace(isFax, jpeg_color_space) ==
    IF isFax THEN "JCS_YCbCr"
    ELSE CASE jpeg_color_space = "JCS_GRAYSCALE" -> "JCS_GRAYSCALE"
           [] jpeg_color_space = "JCS_RGB"       -> "JCS_RGB"
           [] jpeg_color_space = "JCS_YCbCr"     -> "JCS_RGB"
           [] jpeg_color_space = "JCS_CMYK"      -> "JCS_CMYK"
           [] jpeg_color_space = "JCS_YCCK"      -> "JCS_CMYK"
           [] OTHER                              -> "JCS_UNKNOWN"

InputFlavor(isFax, jpeg_color_space, saw_Adobe_marker) ==
    IF ~isFax /\ jpeg_color_space \in {"JCS_CMYK", "JCS_YCCK"} /\ saw_Adobe_marker
    THEN 1 ELSE 0

\* The word GetInputPixelType returns: the channel count is the source's
\* component count, 8 bits per sample, no extra channels.
InputChannels(num_components) == num_components

GetInputPixelType(isFax, jpeg_color_space, num_components, saw_Adobe_marker) ==
    BitOr(BitOr(BitOr(BitOr(EXTRA_SH(0), CHANNELS_SH(InputChannels(num_components))),
                      BYTES_SH(1)),
                COLORSPACE_SH(InputSpace(isFax, jpeg_color_space))),
          FLAVOR_SH(InputFlavor(isFax, jpeg_color_space, saw_Adobe_marker)))

OutputSpaces == {PT_GRAY, PT_RGB, PT_CMY, PT_Lab, PT_YUV, PT_YCbCr, PT_CMYK}
AnySpace == OutputSpaces \cup {PT_XYZ, 0}

OutputChannels(OutColorSpace) ==
    CASE OutColorSpace = PT_GRAY -> 1
      [] OutColorSpace \in {PT_RGB, PT_CMY, PT_Lab, PT_YUV, PT_YCbCr} -> 3
      [] OutColorSpace = PT_CMYK -> 4
      [] OTHER -> 0

ComputeOutputFormatDescriptor(dwInput, OutColorSpace, write_Adobe_marker) ==
    LET IsPlanar == T_PLANAR(dwInput)
        Channels == OutputChannels(OutColorSpace)
        Flavor   == IF OutColorSpace = PT_CMYK /\ write_Adobe_marker THEN 1 ELSE 0
    IN  BitOr(BitOr(BitOr(BitOr(COLORSPACE_SH(OutColorSpace), PLANAR_SH(IsPlanar)),
                          CHANNELS_SH(Channels)),
                    BYTES_SH(1)),
              FLAVOR_SH(Flavor))

\* WriteOutputFields' switch: the compressor's input space, JPEG space and
\* component count; components 0 for an output color space it does not know.
OutputFields(OutputColorSpace, quality) ==
    LET f == CASE OutputColorSpace = PT_GRAY ->
                    [in_space |-> "JCS_GRAYSCALE", jpeg_space |-> "JCS_GRAYSCALE",
                     components |-> 1]
               [] OutputColorSpace = PT_RGB ->
                    [in_space |-> "JCS_RGB", jpeg_space |-> "JCS_YCbCr", components |-> 3]
               [] OutputColorSpace = PT_YCbCr ->
                    [in_space |-> "JCS_YCbCr", jpeg_space |-> "JCS_YCbCr", components |-> 3]
               [] OutputColorSpace = PT_CMYK ->
                    [in_space |-> "JCS_CMYK", jpeg_space |-> "JCS_YCCK", components |-> 4]
               [] OutputColorSpace = PT_Lab ->
                    [in_space |-> "JCS_YCbCr", jpeg_space |-> "JCS_YCbCr", components |-> 3]
               [] OTHER ->
                    [in_space |-> "JCS_UNKNOWN", jpeg_space |-> "JCS_UNKNOWN",
                     components |-> 0]
    IN  IF quality >= 100 THEN [f EXCEPT !.jpeg_space = f.in_space] ELSE f

(***************************************************************************)
(* The inputs: source images and command lines.                            *)
(***************************************************************************)
Marker(tag, data) == [marker |-> tag, data |-> data]

\* Markers the copy at the end of the conversion tells apart.
CopyMarkers ==
    {Marker(JPEG_APP0, JFIF \o <<1, 1>>),
     Marker(JPEG_APP0, JFIF),
     Marker(JPEG_APP0, <<74, 70, 73, 70>>),
     Marker(JPEG_APP0, <<74, 70, 88, 88, 0>>),
     Marker(JPEG_APP0, Adobe),
     Marker(JPEG_APP0 + 14, Adobe \o <<0, 100>>),
     Marker(JPEG_APP0 + 14, <<65, 100, 111, 98>>),
     Marker(JPEG_APP0 + 14, JFIF),
     Marker(JPEG_APP0 + 1, <<69, 120, 105, 102, 0, 0>>),
     Marker(JPEG_APP0 + 14, <<65, 100, 111, 98, 69>>)}

FaxMarker == Marker(JPEG_APP0 + 1, G3FAX \o <<7, 202, 0, 200>>)

\* Photoshop image resource blocks, built as the format lays them out: the
\* signature 8BIM, a 2-byte type, a Pascal string name padded to even size, a
\* 4-byte big-endian size and the data padded to even size.
Bytes(n, b) == [k \in 1..n |-> b]
PhotoshopHeader == Photoshop \o <<32, 51, 46, 48, 0>>
PascalName(n) == <<n>> \o Bytes(n, 65) \o (IF n % 2 = 0 THEN <<0>> ELSE <<>>)
BigEndian16(v) == <<v \div 256, v % 256>>
Resource(type, n, len, data) ==
    EightBIM \o BigEndian16(type) \o PascalName(n) \o <<0, 0>> \o BigEndian16(len)
        \o data \o (IF Len(data) % 2 = 1 THEN <<0>> ELSE <<>>)

\* A fixed-point 16.16 number is [h, l]: h + l / 65536.
FixedSamples == {[h |-> 300, l |-> 0], [h |-> 300, l |-> 65535], [h |-> 72, l |-> 32768]}
ResolutionData(x, y) ==
    BigEndian16(x.h) \o BigEndian16(x.l) \o <<0, 1, 0, 1>>
        \o BigEndian16(y.h) \o BigEndian16(y.l) \o <<0, 1, 0, 1>>
ResolutionRecord(x, y) == Resource(ResolutionInfo, 0, 16, ResolutionData(x, y))
OtherRecord(n, len) == Resource(1028, n, len, Bytes(len, 7))

\* Payloads that hold a well-formed resolution record, alone or after one
\* other well-formed record.
ResolutionPayloads ==
    {PhotoshopHeader \o ResolutionRecord(x, y) : x \in FixedSamples, y \in FixedSamples}
    \cup {PhotoshopHeader \o OtherRecord(n, len)
            \o ResolutionRecord([h |-> 300, l |-> 0], [h |-> 72, l |-> 32768]) :
            n \in 0..MaxNameLen, len \in 0..MaxSkipLen}

\* Payloads with no usable resolution record, every record complete: no
\* record at all, a wrong resource signature, records of other types only, a
\* resolution record shorter than 16 bytes.
MalformedPayloads ==
    {PhotoshopHeader,
     PhotoshopHeader \o <<56, 66, 73, 78>> \o ResolutionData([h |-> 300, l |-> 0],
                                                              [h |-> 300, l |-> 0]),
     PhotoshopHeader \o <<0, 0, 0, 0>>}
    \cup {PhotoshopHeader \o OtherRecord(n, len) : n \in 0..MaxNameLen, len \in 0..MaxSkipLen}
    \cup {PhotoshopHeader \o Resource(ResolutionInfo, 0, 8, Bytes(8, 1)),
          PhotoshopHeader \o Resource(ResolutionInfo, 1, 15, Bytes(15, 1))}

\* Payloads cut short or with a size field that is not the size of the data.
BrokenPayloads ==
    {PhotoshopHeader \o <<56, 66>>,
     PhotoshopHeader \o EightBIM \o BigEndian16(ResolutionInfo) \o <<0, 0>>
        \o <<0, 0, 0, 16>> \o <<1, 44>>,
     PhotoshopHeader \o EightBIM \o BigEndian16(1028) \o <<0, 0>> \o <<255, 255, 255, 244>>,
     PhotoshopHeader \o EightBIM \o BigEndian16(1028) \o <<0, 0>> \o <<0, 0, 0, 200>>}

JunkBytes == {0, 56, 255}

ColorModes ==
    {[jpeg_color_space |-> "JCS_GRAYSCALE", num_components |-> 1, saw_Adobe_marker |-> FALSE],
     [jpeg_color_space |-> "JCS_YCbCr", num_components |-> 3, saw_Adobe_marker |-> FALSE],
     [jpeg_color_space |-> "JCS_RGB", num_components |-> 3, saw_Adobe_marker |-> TRUE],
     [jpeg_color_space |-> "JCS_CMYK", num_components |-> 4, saw_Adobe_marker |-> TRUE],
     [jpeg_color_space |-> "JCS_CMYK", num_components |-> 4, saw_Adobe_marker |-> FALSE],
     [jpeg_color_space |-> "JCS_YCCK", num_components |-> 4, saw_Adobe_marker |-> TRUE],
     [jpeg_color_space |-> "JCS_UNKNOWN", num_components |-> 3, saw_Adobe_marker |-> FALSE]}

CoreModes ==
    {m \in ColorModes :
        \/ m.jpeg_color_space \in {"JCS_GRAYSCALE", "JCS_YCbCr", "JCS_UNKNOWN"}
        \/ m.jpeg_color_space = "JCS_CMYK" /\ m.saw_Adobe_marker}

YCbCrMode ==
    [jpeg_color_space |-> "JCS_YCbCr", num_components |-> 3, saw_Adobe_marker |-> FALSE]

Densities ==
    {[X_density |-> 1, Y_density |-> 1, density_unit |-> 0],
     [X_density |-> 72, Y_density |-> 96, density_unit |-> 2]}

DefaultDensity == [X_density |-> 1, Y_density |-> 1, density_unit |-> 0]

Image(mode, markers, icc, height, density) ==
    [jpeg_color_space |-> mode.jpeg_color_space,
     num_components |-> mode.num_components,
     saw_Adobe_marker |-> mode.saw_Adobe_marker,
     marker_list |-> markers, icc |-> icc, image_height |-> height,
     X_density |-> density.X_density, Y_density |-> density.Y_density,
     density_unit |-> density.density_unit]

\* Sequences over S of length at most n.
RECURSIVE SeqsUpTo(_, _)
SeqsUpTo(S, n) ==
    IF n = 0 THEN {<<>>}
    ELSE LET shorter == SeqsUpTo(S, n - 1)
         IN  shorter \cup {Append(q, x) : q \in shorter, x \in S}

\* Every color mode, with and without the fax marker and an embedded profile.
CoreImages ==
    {Image(m, fax, icc, 1, DefaultDensity) :
        m \in CoreModes, fax \in {<<>>, <<FaxMarker>>}, icc \in {"none", "rgb", "cmyk"}}

ModeImages ==
    {Image(m, fax, icc, 1, DefaultDensity) :
        m \in ColorModes, fax \in {<<>>, <<FaxMarker>>},
        icc \in {"none", "gray", "lab", "corrupt"}}

\* Marker lists for the copy of the markers.
MarkerImages ==
    {Image(YCbCrMode, ms, "none", 1, DefaultDensity) : ms \in SeqsUpTo(CopyMarkers, MaxMarkers)}

\* Images with a Photoshop APP13 marker, alone, or beside another marker.
PhotoshopLists ==
    LET first == ResolutionPayloads \cup MalformedPayloads \cup BrokenPayloads
        other == {FaxMarker,
                  Marker(JPEG_APP0 + 13, PhotoshopHeader),
                  Marker(JPEG_APP0 + 13, <<80, 104, 111, 116, 111>>)}
    IN  {<<Marker(JPEG_APP0 + 13, p)>> : p \in first}
        \cup {<<o, Marker(JPEG_APP0 + 13, p)>> : o \in other, p \in ResolutionPayloads}
        \cup {<<Marker(JPEG_APP0 + 13, p), Marker(JPEG_APP0 + 13, q)>> :
                p \in MalformedPayloads, q \in MalformedPayloads}

PhotoshopImages ==
    {Image(YCbCrMode, ms, "none", 1, d) : ms \in PhotoshopLists, d \in Densities}

\* Images of every height up to the bound.
HeightImages ==
    {Image(m, fax, "none", h, DefaultDensity) :
        m \in CoreModes, fax \in {<<>>, <<FaxMarker>>}, h \in 0..MaxHeight}

\* Command lines.  A switch is its letter and its argument ("" for none).
Switch(letter, arg) == [sw |-> letter, arg |-> arg]
Opt(letter) == {<<>>, <<Switch(letter, "")>>}

InputSwitches ==
    {<<>>} \cup {<<Switch("i", a)>> :
                    a \in {"*Lab", "gray.icc", "rgb.icc", "cmyk.icc", "lab.icc", "none.icc"}}
           \cup {<<Switch("l", a)>> : a \in {"rgb2cmyk.icc", "cmyk2cmyk.icc", "none.icc"}}

OutputSwitches ==
    {<<>>} \cup {<<Switch("o", a)>> :
                    a \in {"*lab", "gray.icc", "cmyk.icc", "xyz.icc", "none.icc"}}

ProfileArgvs ==
    {i \o o \o n : i \in InputSwitches, o \in OutputSwitches, n \in Opt("n")}

OptionArgvs ==
    {p \o e \o o \o l \o x :
        p \in {<<>>, <<Switch("p", "rgb.icc")>>},
        e \in Opt("e"),
        o \in {<<>>, <<Switch("o", "*lab")>>, <<Switch("o", "cmyk.icc")>>},
        l \in {<<>>, <<Switch("l", "cmyk2cmyk.icc")>>},
        x \in {<<>>, <<Switch("b", "")>>, <<Switch("g", "")>>, <<Switch("q", "100")>>,
               <<Switch("q", "-5")>>, <<Switch("q", "101")>>,
               <<Switch("c", "0")>>, <<Switch("c", "1")>>, <<Switch("c", "2")>>,
               <<Switch("c", "3")>>, <<Switch("c", "-1")>>,
               <<Switch("t", "1")>>, <<Switch("m", "3")>>, <<Switch("?", "")>>}}

PlainArgvs == {<<>>, <<Switch("n", "")>>, <<Switch("o", "*lab")>>}

\* The i, o and l switches in every order, l possibly more than once.
ProfileSwitches ==
    {Switch("i", "cmyk.icc"), Switch("o", "cmyk.icc"),
     Switch("l", "cmyk2cmyk.icc"), Switch("l", "rgb2cmyk.icc")}
OrderArgvs == UNION {[1..n -> ProfileSwitches] : n \in 2..MaxSwitches}

OptionImages ==
    {Image(m, <<>>, icc, 1, DefaultDensity) :
        m \in {c \in ColorModes : c.jpeg_color_space = "JCS_CMYK"}, icc \in {"none", "cmyk"}}

\* atoi on the arguments the command lines hold.
atoi(str) ==
    CASE str = "0" -> 0 [] str = "1" -> 1 [] str = "2" -> 2 [] str = "3" -> 3
      [] str = "-1" -> 0 - 1 [] str = "-5" -> 0 - 5
      [] str = "100" -> 100 [] str = "101" -> 101
      [] OTHER -> 0

(***************************************************************************)
(* The state.                                                              *)
(***************************************************************************)
VARIABLES
    argv,                   \* the switches xgetopt has not handed out yet
    InFile,                 \* the source image file
    OutFile,                \* what has been written to the destination, in order
    BlackPointCompensation, IgnoreEmbedded, GamutCheck, lIsITUFax,
    lIsPhotoshopApp13, lIsDeviceLink, EmbedProfile,
    Intent, ProofingIntent, PrecalcMode, jpegQuality,
    cInpProf, cOutProf, cProofing,
    Decompressor, Compressor,
    hIn, hOut, hProof, wInput, wOutput, OutputColorSpace, dwFlags, xform,
    ScanLineIn, ScanLineOut,
    calls,                  \* how many calls of malloc, free and cmsDoTransform were made
    pc,                     \* where main is
    err,                    \* the message of the fatal error, if any
    stage,                  \* which call of the fax codec comes next, "none" in a conversion
    PCS,                    \* PCS2ITU's In: a 16-bit encoded PCS Lab triple
    Lab,                    \* the cmsCIELab value Lab2ITU is given
    ITU,                    \* Lab2ITU's Out: a 16-bit fax triple
    Decoded                 \* the cmsCIELab value ITU2Lab returns

optVars ==
    <<BlackPointCompensation, IgnoreEmbedded, GamutCheck, lIsDeviceLink, EmbedProfile,
      Intent, ProofingIntent, PrecalcMode, jpegQuality, cInpProf, cOutProf, cProofing>>
faxVars == <<lIsITUFax, lIsPhotoshopApp13>>
profVars == <<hIn, hOut, hProof>>
fmtVars == <<wInput, wOutput, OutputColorSpace>>
bufVars == <<ScanLineIn, ScanLineOut, calls>>
codecVars == <<stage, PCS, Lab, ITU, Decoded>>
vars ==
    <<argv, InFile, OutFile, optVars, faxVars, Decompressor, Compressor,
      profVars, fmtVars, dwFlags, xform, bufVars, pc, err, codecVars>>

NoBuffer == [state |-> "none", data |-> <<>>]

NoTransform ==
    [built |-> FALSE, hIn |-> NullProfile, wInput |-> 0, hOut |-> NullProfile,
     wOutput |-> 0, hProof |-> NullProfile, Intent |-> 0, ProofingIntent |-> 0,
     dwFlags |-> {}]

\* The globals as the program starts.
Globals ==
    /\ OutFile = <<>>
    /\ BlackPointCompensation = FALSE
    /\ IgnoreEmbedded = FALSE
    /\ GamutCheck = FALSE
    /\ lIsITUFax = FALSE
    /\ lIsPhotoshopApp13 = FALSE
    /\ lIsDeviceLink = FALSE
    /\ EmbedProfile = FALSE
    /\ Intent = 0
    /\ ProofingIntent = 0
    /\ PrecalcMode = DefaultPrecalcMode
    /\ jpegQuality = DefaultQuality
    /\ cInpProf = NULL
    /\ cOutProf = NULL
    /\ cProofing = NULL
    /\ Decompressor =
         [jpeg_color_space |-> "JCS_UNKNOWN", out_color_space |-> "JCS_UNKNOWN",
          num_components |-> 0, saw_Adobe_marker |-> FALSE, marker_list |-> <<>>,
          icc |-> "none", image_height |-> 0, output_height |-> 0,
          output_scanline |-> 0, X_density |-> 0, Y_density |-> 0,
          density_unit |-> 0, global_state |-> "none"]
    /\ Compressor =
         [in_color_space |-> "JCS_UNKNOWN", jpeg_color_space |-> "JCS_UNKNOWN",
          input_components |-> 0, num_components |-> 0, image_height |-> 0,
          write_JFIF_header |-> FALSE, write_Adobe_marker |-> FALSE,
          X_density |-> 0, Y_density |-> 0, density_unit |-> 0,
          next_scanline |-> 0, global_state |-> "none"]
    /\ hIn = NullProfile
    /\ hOut = NullProfile
    /\ hProof = NullProfile
    /\ wInput = 0
    /\ wOutput = 0
    /\ OutputColorSpace = 0
    /\ dwFlags = {}
    /\ xform = NoTransform
    /\ ScanLineIn = NoBuffer
    /\ ScanLineOut = NoBuffer
    /\ calls = [mallocs |-> 0, frees |-> 0, transforms |-> 0]
    /\ pc = "HandleSwitches"
    /\ err = ""

\* No call of the fax codec is traced during a conversion.
CodecIdle ==
    /\ stage = "none"
    /\ PCS = <<0, 0, 0>>
    /\ Lab = ZeroLab
    /\ ITU = <<0, 0, 0>>
    /\ Decoded = ZeroLab

Init ==
    /\ \/ argv \in ProfileArgvs /\ InFile \in CoreImages
       \/ argv \in OptionArgvs /\ InFile \in OptionImages
       \/ argv \in OrderArgvs /\ InFile \in OptionImages
       \/ argv \in PlainArgvs
            /\ InFile \in ModeImages \cup MarkerImages \cup PhotoshopImages \cup HeightImages
    /\ Globals
    /\ CodecIdle

\* FatalError prints the message and ends the process.
FatalError(msg) == pc' = "fatal" /\ err' = msg

(***************************************************************************)
(* HandleSwitches: one turn of the xgetopt loop.                           *)
(***************************************************************************)
DeviceLinkAlready(s) == s.sw \in {"i", "o"} /\ lIsDeviceLink
\* The test of the 'l' switch looking at the output profile only.
ProfilesAlready_OutputOnly(s) == s.sw = "l" /\ cOutProf # NULL

ProfilesAlready(s) == s.sw = "l" /\ (cInpProf # NULL \/ cOutProf # NULL)
BadPrecalc(s) == s.sw = "c" /\ (atoi(s.arg) < 0 \/ atoi(s.arg) > 2)
KnownSwitches == {"b", "i", "o", "l", "p", "t", "n", "e", "g", "c", "q", "m"}

SwitchError(s) ==
    CASE DeviceLinkAlready(s) -> "Device-link already specified"
      [] ProfilesAlready(s) -> "input/output profiles already specified"
      [] BadPrecalc(s) -> "Unknown precalc mode"
      [] s.sw \notin KnownSwitches -> "Unknown option - run without args to see valid ones"
      [] OTHER -> ""

ClampQuality(q) == IF q > 100 THEN 100 ELSE IF q < 0 THEN 0 ELSE q

HandleSwitches ==
    /\ pc = "HandleSwitches"
    /\ argv # <<>>
    /\ LET s == Head(argv)
           stop == DeviceLinkAlready(s) \/ ProfilesAlready(s)
       IN  /\ argv' = Tail(argv)
           /\ BlackPointCompensation' = (IF s.sw = "b" THEN TRUE ELSE BlackPointCompensation)
           /\ cInpProf' = (IF s.sw \in {"i", "l"} /\ ~stop THEN s.arg ELSE cInpProf)
           /\ cOutProf' = (IF s.sw = "o" /\ ~stop THEN s.arg ELSE cOutProf)
           /\ lIsDeviceLink' = (IF s.sw = "l" /\ ~stop THEN TRUE ELSE lIsDeviceLink)
           /\ cProofing' = (IF s.sw = "p" THEN s.arg ELSE cProofing)
           /\ Intent' = (IF s.sw = "t" THEN atoi(s.arg) ELSE Intent)
           /\ IgnoreEmbedded' = (IF s.sw = "n" THEN TRUE ELSE IgnoreEmbedded)
           /\ EmbedProfile' = (IF s.sw = "e" THEN TRUE ELSE EmbedProfile)
           /\ GamutCheck' = (IF s.sw = "g" THEN TRUE ELSE GamutCheck)
           /\ PrecalcMode' = (IF s.sw = "c" THEN atoi(s.arg) ELSE PrecalcMode)
           /\ jpegQuality' = (IF s.sw = "q" THEN ClampQuality(atoi(s.arg)) ELSE jpegQuality)
           /\ ProofingIntent' = (IF s.sw = "m" THEN atoi(s.arg) ELSE ProofingIntent)
           /\ IF SwitchError(s) # "" THEN FatalError(SwitchError(s))
              ELSE UNCHANGED <<pc, err>>
    /\ UNCHANGED <<codecVars, InFile, OutFile, faxVars, Decompressor, Compressor, profVars, fmtVars,
                   dwFlags, xform, bufVars>>

\* xgetopt returns EOF: main goes on to open the two files.
EndOfSwitches ==
    /\ pc = "HandleSwitches"
    /\ argv = <<>>
    /\ pc' = "OpenInput"
    /\ UNCHANGED <<codecVars, argv, InFile, OutFile, optVars, faxVars, Decompressor, Compressor,
                   profVars, fmtVars, dwFlags, xform, bufVars, err>>

\* OpenInput: jpeg_read_header fills the decompressor from the file, with the
\* APPn markers saved.
OpenInput ==
    /\ pc = "OpenInput"
    /\ lIsITUFax' = FALSE
    /\ Decompressor' =
         [Decompressor EXCEPT
            !.jpeg_color_space = InFile.jpeg_color_space,
            !.num_components = InFile.num_components,
            !.saw_Adobe_marker = InFile.saw_Adobe_marker,
            !.marker_list = InFile.marker_list,
            !.icc = InFile.icc,
            !.image_height = InFile.image_height,
            !.X_density = InFile.X_density,
            !.Y_density = InFile.Y_density,
            !.density_unit = InFile.density_unit,
            !.global_state = "ready"]
    /\ pc' = "OpenOutput"
    /\ UNCHANGED <<codecVars, argv, InFile, OutFile, optVars, lIsPhotoshopApp13, Compressor,
                   profVars, fmtVars, dwFlags, xform, bufVars, err>>

OpenOutput ==
    /\ pc = "OpenOutput"
    /\ Compressor' = [Compressor EXCEPT !.input_components = 4, !.num_components = 4,
                                        !.global_state = "ready"]
    /\ pc' = "TransformImage"
    /\ UNCHANGED <<codecVars, argv, InFile, OutFile, optVars, faxVars, Decompressor,
                   profVars, fmtVars, dwFlags, xform, bufVars, err>>

(***************************************************************************)
(* TransformImage.                                                         *)
(***************************************************************************)
TransformFlags(bpc, precalc, gamut) ==
    (IF bpc THEN {"cmsFLAGS_BLACKPOINTCOMPENSATION"} ELSE {})
    \cup (CASE precalc = 0 -> {"cmsFLAGS_NOOPTIMIZE"}
            [] precalc = 2 -> {"cmsFLAGS_HIGHRESPRECALC"}
            [] precalc = 3 -> {"cmsFLAGS_LOWRESPRECALC"}
            [] OTHER -> {})
    \cup (IF gamut THEN {"cmsFLAGS_GAMUTCHECK"} ELSE {})

\* A scan read outside the payload when some index it read is not in it.
ReadsOutside(scan, datalen) == \E k \in scan.reads : k < 0 \/ k >= datalen

\* The density fields after HandlePhotoshopAPP13.
ExtractResolution(d, scan) ==
    IF scan.ret
    THEN [d EXCEPT !.X_density = scan.X, !.Y_density = scan.Y, !.density_unit = 1]
    ELSE d

\* The flags, then GetInputPixelType: the fax test, the resolution of a
\* Photoshop marker, the pixel format of the source.
InputPixelType ==
    /\ pc = "TransformImage"
    /\ dwFlags' = TransformFlags(BlackPointCompensation, PrecalcMode, GamutCheck)
    /\ lIsITUFax' = IsITUFax(Decompressor.marker_list)
    /\ \E junk \in JunkBytes :
         LET app13 == HandlePhotoshopAPP13(Decompressor.marker_list, junk)
             space == InputSpace(lIsITUFax', Decompressor.jpeg_color_space)
         IN  \/ /\ app13.scan.hang
                /\ pc' = "hang"
                /\ UNCHANGED <<lIsPhotoshopApp13, Decompressor, wInput, err>>
             \/ /\ ReadsOutside(app13.scan, app13.datalen)
                /\ pc' = "crashed"
                /\ UNCHANGED <<lIsPhotoshopApp13, Decompressor, wInput, err>>
             \/ /\ ~app13.scan.hang
                /\ lIsPhotoshopApp13' = app13.handled
                /\ IF space = 0
                   THEN /\ Decompressor' = ExtractResolution(Decompressor, app13.scan)
                        /\ FatalError("Unsupported color space")
                        /\ UNCHANGED wInput
                   ELSE /\ Decompressor' =
                             [ExtractResolution(Decompressor, app13.scan) EXCEPT
                                !.out_color_space =
                                    InputOutColorSpace(lIsITUFax',
                                                       Decompressor.jpeg_color_space)]
                        /\ wInput' = GetInputPixelType(lIsITUFax',
                                                       Decompressor.jpeg_color_space,
                                                       Decompressor.num_components,
                                                       Decompressor.saw_Adobe_marker)
                        /\ pc' = "OpenProfiles"
                        /\ UNCHANGED err
    /\ UNCHANGED <<codecVars, argv, InFile, OutFile, optVars, Compressor, profVars, wOutput,
                   OutputColorSpace, xform, bufVars>>

\* The input profile TransformImage opens.
DefaultInput(cDefInpProf, dwInput) ==
    IF cDefInpProf = NULL /\ T_COLORSPACE(dwInput) = PT_Lab THEN "*Lab" ELSE cDefInpProf

\* The test of the embedded profile without the IgnoreEmbedded flag.
UseEmbedded_Always(ignore, icc) == icc # "none"

UseEmbedded(ignore, icc) == ~ignore /\ icc # "none"

InputProfile(isDeviceLink, ignore, icc, cDefInpProf, dwInput, alloc) ==
    IF isDeviceLink THEN cmsOpenProfileFromFile(cDefInpProf)
    ELSE IF UseEmbedded(ignore, icc) THEN cmsOpenProfileFromMem(icc)
    ELSE IF DefaultInput(cDefInpProf, dwInput) # NULL
            /\ IsLabName(DefaultInput(cDefInpProf, dwInput))
         THEN CreateITU2PCS_ICC(alloc)
         ELSE OpenStockProfile(DefaultInput(cDefInpProf, dwInput))

OutputProfile(isDeviceLink, cOut, alloc) ==
    IF isDeviceLink THEN NullProfile
    ELSE IF cOut # NULL /\ IsLabName(cOut) THEN CreatePCS2ITU_ICC(alloc)
    ELSE OpenStockProfile(cOut)

ProofingProfile(isDeviceLink, cProof) ==
    IF isDeviceLink \/ cProof = NULL THEN NullProfile ELSE OpenStockProfile(cProof)

ProofingFlags(isDeviceLink, cProof) ==
    IF ~isDeviceLink /\ cProof # NULL THEN {"cmsFLAGS_SOFTPROOFING"} ELSE {}

OpenProfiles ==
    /\ pc = "OpenProfiles"
    /\ \E allocIn \in AllocOutcomes, allocOut \in AllocOutcomes :
         /\ hIn' = InputProfile(lIsDeviceLink, IgnoreEmbedded, Decompressor.icc,
                                cInpProf, wInput, allocIn)
         /\ hOut' = OutputProfile(lIsDeviceLink, cOutProf, allocOut)
    /\ hProof' = ProofingProfile(lIsDeviceLink, cProofing)
    /\ dwFlags' = dwFlags \cup ProofingFlags(lIsDeviceLink, cProofing)
    /\ pc' = "CheckColorSpace"
    /\ UNCHANGED <<codecVars, argv, InFile, OutFile, optVars, faxVars, Decompressor, Compressor,
                   fmtVars, xform, bufVars, err>>

\* The input profile and the input JPEG must be on the same color space.
\* With a NULL input profile the read of its color space is undefined: the
\* process ends or the comparison goes either way.
SameColorSpace_PCS(hProfile, dwInput) ==
    hProfile.PCS = _cmsICCcolorSpace(T_COLORSPACE(dwInput))

SameColorSpace(hProfile, dwInput) ==
    hProfile.ColorSpace = _cmsICCcolorSpace(T_COLORSPACE(dwInput))

CheckColorSpace ==
    /\ pc = "CheckColorSpace"
    /\ \/ /\ hIn # NullProfile
          /\ IF SameColorSpace(hIn, wInput)
             THEN pc' = "OutputFormat" /\ UNCHANGED err
             ELSE FatalError("Input profile is not operating in proper color space")
       \/ /\ hIn = NullProfile
          /\ \/ pc' = "crashed" /\ UNCHANGED err
             \/ pc' = "OutputFormat" /\ UNCHANGED err
             \/ FatalError("Input profile is not operating in proper color space")
    /\ UNCHANGED <<codecVars, argv, InFile, OutFile, optVars, faxVars, Decompressor, Compressor,
                   profVars, fmtVars, dwFlags, xform, bufVars>>

\* The output color space, jpeg_copy_critical_parameters, WriteOutputFields
\* and the output pixel format.  jpeg_set_defaults resets the destination's
\* density; jpeg_set_colorspace chooses which of the JFIF and Adobe markers
\* the destination writes, and WriteOutputFields forces the JFIF header for
\* CMYK.  The color space of a NULL profile is undefined.
OutputSpaceOf_DeviceSide(isDeviceLink, hInput, hOutput) ==
    IF isDeviceLink THEN GetProfileColorSpace(hInput)
    ELSE GetProfileColorSpace(hOutput)

OutputSpaceOf(isDeviceLink, hInput, hOutput) ==
    IF isDeviceLink THEN GetDevicelinkColorSpace(hInput)
    ELSE GetProfileColorSpace(hOutput)

OutputFormat ==
    /\ pc = "OutputFormat"
    /\ \E space \in AnySpace, jfif \in BOOLEAN, adobe \in BOOLEAN :
         /\ IF (IF lIsDeviceLink THEN hIn ELSE hOut) = NullProfile
            THEN space \in {PT_RGB, PT_Lab, 0}
            ELSE space = OutputSpaceOf(lIsDeviceLink, hIn, hOut)
         /\ OutputColorSpace' = space
         /\ LET f == OutputFields(space, jpegQuality)
                copied == [Compressor EXCEPT !.image_height = Decompressor.image_height]
            IN  IF f.components = 0
                THEN /\ Compressor' = copied
                     /\ FatalError("Unsupported output color space")
                     /\ UNCHANGED wOutput
                ELSE /\ Compressor' =
                          [copied EXCEPT
                             !.in_color_space = f.in_space,
                             !.jpeg_color_space = f.jpeg_space,
                             !.input_components = f.components,
                             !.num_components = f.components,
                             !.X_density = DefaultDensity.X_density,
                             !.Y_density = DefaultDensity.Y_density,
                             !.density_unit = DefaultDensity.density_unit,
                             !.write_JFIF_header = (jfif \/ space = PT_CMYK),
                             !.write_Adobe_marker = adobe]
                     /\ wOutput' = ComputeOutputFormatDescriptor(wInput, space, adobe)
                     /\ pc' = "CreateTransform"
                     /\ UNCHANGED err
    /\ UNCHANGED <<codecVars, argv, InFile, OutFile, optVars, faxVars, Decompressor,
                   profVars, wInput, dwFlags, xform, bufVars>>

\* cmsCreateProofingTransform: the library builds the transform or returns
\* NULL, which is fatal.
CreateTransform ==
    /\ pc = "CreateTransform"
    /\ \/ /\ xform' = [built |-> TRUE, hIn |-> hIn, wInput |-> wInput, hOut |-> hOut, wOutput |-> wOutput,
                       hProof |-> hProof, Intent |-> Intent,
                       ProofingIntent |-> ProofingIntent, dwFlags |-> dwFlags]
          /\ pc' = "PreserveResolution"
          /\ UNCHANGED err
       \/ /\ FatalError("Cannot transform by using the profiles")
          /\ UNCHANGED xform
    /\ UNCHANGED <<codecVars, argv, InFile, OutFile, optVars, faxVars, Decompressor, Compressor,
                   profVars, fmtVars, dwFlags, bufVars>>

(***************************************************************************)
(* DoTransform.                                                            *)
(***************************************************************************)
\* DoTransform without the copy of the resolution fields.
PreserveResolution_Dropped ==
    /\ pc = "PreserveResolution"
    /\ pc' = "StartStreams"
    /\ UNCHANGED <<codecVars, argv, InFile, OutFile, optVars, faxVars, Decompressor, Compressor,
                   profVars, fmtVars, dwFlags, xform, bufVars, err>>

\* Preserve resolution values from the original.
PreserveResolution ==
    /\ pc = "PreserveResolution"
    /\ Compressor' = [Compressor EXCEPT !.density_unit = Decompressor.density_unit,
                                        !.X_density = Decompressor.X_density,
                                        !.Y_density = Decompressor.Y_density]
    /\ pc' = "StartStreams"
    /\ UNCHANGED <<codecVars, argv, InFile, OutFile, optVars, faxVars, Decompressor,
                   profVars, fmtVars, dwFlags, xform, bufVars, err>>

Item(kind, tag, data) == [kind |-> kind, tag |-> tag, data |-> data]

\* What jpeg_start_compress writes: the start of the image and the headers
\* the destination is set to write, the JFIF header with the density.
FileHeader(c) ==
    <<Item("SOI", 0, <<>>)>>
    \o (IF c.write_JFIF_header
        THEN <<Item("JFIF", JPEG_APP0, <<c.density_unit, c.X_density, c.Y_density>>)>>
        ELSE <<>>)
    \o (IF c.write_Adobe_marker THEN <<Item("Adobe", JPEG_APP0 + 14, <<>>)>> ELSE <<>>)

\* jpeg_start_decompress, jpeg_start_compress.
StartStreams ==
    /\ pc = "StartStreams"
    /\ Decompressor' = [Decompressor EXCEPT !.global_state = "scanning",
                                            !.output_height = Decompressor.image_height,
                                            !.output_scanline = 0]
    /\ Compressor' = [Compressor EXCEPT !.global_state = "scanning", !.next_scanline = 0]
    /\ OutFile' = OutFile \o FileHeader(Compressor)
    /\ pc' = "WriteMarkers"
    /\ UNCHANGED <<codecVars, argv, InFile, optVars, faxVars, profVars, fmtVars, dwFlags, xform,
                   bufVars, err>>

\* DoEmbedProfile: the profile file, when it can be opened, goes to the
\* destination as an APP2 marker.
ProfileBytes(name) ==
    <<73, 67, 67>> \o (CASE name = "gray.icc" -> <<1>> [] name = "rgb.icc" -> <<2>>
                         [] name = "cmyk.icc" -> <<3>> [] name = "lab.icc" -> <<4>>
                         [] name = "xyz.icc" -> <<5>> [] name = "rgb2cmyk.icc" -> <<6>>
                         [] name = "cmyk2cmyk.icc" -> <<7>> [] OTHER -> <<0>>)

DoEmbedProfile(ProfileFile) ==
    IF ProfileFile \in ProfileNames
    THEN <<Item("marker", JPEG_APP0 + 2, ProfileBytes(ProfileFile))>>
    ELSE <<>>

\* The fax marker for a Lab output, then the embedded profile if asked for.
StartMarkers(space, embed, cOut) ==
    (IF space = PT_Lab THEN <<Item("marker", SetITUFax.marker, SetITUFax.data)>> ELSE <<>>)
    \o (IF embed /\ cOut # NULL THEN DoEmbedProfile(cOut) ELSE <<>>)

WriteMarkers ==
    /\ pc = "WriteMarkers"
    /\ OutFile' = OutFile \o StartMarkers(OutputColorSpace, EmbedProfile, cOutProf)
    /\ pc' = "AllocBuffers"
    /\ UNCHANGED <<codecVars, argv, InFile, optVars, faxVars, Decompressor, Compressor,
                   profVars, fmtVars, dwFlags, xform, bufVars, err>>

AllocBuffers ==
    /\ pc = "AllocBuffers"
    /\ ScanLineIn' = [state |-> "allocated", data |-> <<>>]
    /\ ScanLineOut' = [state |-> "allocated", data |-> <<>>]
    /\ calls' = [calls EXCEPT !.mallocs = calls.mallocs + 2]
    /\ pc' = "Loop"
    /\ UNCHANGED <<codecVars, argv, InFile, OutFile, optVars, faxVars, Decompressor, Compressor,
                   profVars, fmtVars, dwFlags, xform, err>>

\* The loop test with <= for <.
MoreScanlines_OffByOne(d) == d.output_scanline <= d.output_height

\* The loop test.
MoreScanlines(d) == d.output_scanline < d.output_height

\* Row k of the source image, and the row the transform makes of a row.
SourceRow(k) == <<k>>
cmsDoTransform(hXForm, row) == row \o <<T_COLORSPACE(hXForm.wOutput)>>

\* jpeg_read_scanlines: the next row of the source, or a codec error, which
\* is fatal.
ReadScanline ==
    /\ pc = "Loop"
    /\ MoreScanlines(Decompressor)
    /\ \/ /\ ScanLineIn' = [ScanLineIn EXCEPT
                              !.data = SourceRow(Decompressor.output_scanline + 1)]
          /\ Decompressor' = [Decompressor EXCEPT
                                !.output_scanline = Decompressor.output_scanline + 1]
          /\ pc' = "Transform"
          /\ UNCHANGED err
       \/ /\ FatalError("codec error")
          /\ UNCHANGED <<ScanLineIn, Decompressor>>
    /\ UNCHANGED <<codecVars, argv, InFile, OutFile, optVars, faxVars, Compressor, profVars,
                   fmtVars, dwFlags, xform, ScanLineOut, calls>>

TransformScanline ==
    /\ pc = "Transform"
    /\ ScanLineOut' = [ScanLineOut EXCEPT !.data = cmsDoTransform(xform, ScanLineIn.data)]
    /\ calls' = [calls EXCEPT !.transforms = calls.transforms + 1]
    /\ pc' = "Write"
    /\ UNCHANGED <<codecVars, argv, InFile, OutFile, optVars, faxVars, Decompressor, Compressor,
                   profVars, fmtVars, dwFlags, xform, ScanLineIn, err>>

WriteScanline ==
    /\ pc = "Write"
    /\ OutFile' = Append(OutFile, Item("row", 0, ScanLineOut.data))
    /\ Compressor' = [Compressor EXCEPT !.next_scanline = Compressor.next_scanline + 1]
    /\ pc' = "Loop"
    /\ UNCHANGED <<codecVars, argv, InFile, optVars, faxVars, Decompressor, profVars, fmtVars,
                   dwFlags, xform, bufVars, err>>

FreeBuffers ==
    /\ pc = "Loop"
    /\ ~MoreScanlines(Decompressor)
    /\ ScanLineIn' = [ScanLineIn EXCEPT !.state = "freed"]
    /\ ScanLineOut' = [ScanLineOut EXCEPT !.state = "freed"]
    /\ calls' = [calls EXCEPT !.frees = calls.frees + 2]
    /\ pc' = "FinishStreams"
    /\ UNCHANGED <<codecVars, argv, InFile, OutFile, optVars, faxVars, Decompressor, Compressor,
                   profVars, fmtVars, dwFlags, xform, err>>

\* jpeg_finish_decompress, jpeg_finish_compress.
FinishStreams ==
    /\ pc = "FinishStreams"
    /\ Decompressor' = [Decompressor EXCEPT !.global_state = "finished"]
    /\ Compressor' = [Compressor EXCEPT !.global_state = "finished"]
    /\ OutFile' = Append(OutFile, Item("EOI", 0, <<>>))
    /\ pc' = "CopyMarkers"
    /\ UNCHANGED <<codecVars, argv, InFile, optVars, faxVars, profVars, fmtVars, dwFlags, xform,
                   bufVars, err>>

\* Back in TransformImage: the source markers are copied.
MarkerItems(ms) == [n \in 1..Len(ms) |-> Item("marker", ms[n].marker, ms[n].data)]

CopySourceMarkers ==
    /\ pc = "CopyMarkers"
    /\ OutFile' = OutFile \o MarkerItems(jcopy_markers_execute(Decompressor.marker_list,
                                                               Compressor.write_JFIF_header,
                                                               Compressor.write_Adobe_marker))
    /\ pc' = "CloseProfiles"
    /\ UNCHANGED <<codecVars, argv, InFile, optVars, faxVars, Decompressor, Compressor,
                   profVars, fmtVars, dwFlags, xform, bufVars, err>>

\* cmsDeleteTransform, cmsCloseProfile.
CloseProfiles ==
    /\ pc = "CloseProfiles"
    /\ xform' = NoTransform
    /\ hIn' = NullProfile
    /\ hOut' = NullProfile
    /\ hProof' = NullProfile
    /\ pc' = "Done"
    /\ UNCHANGED <<codecVars, argv, InFile, OutFile, optVars, faxVars, Decompressor, Compressor,
                   fmtVars, dwFlags, bufVars, err>>

\* Done: both codec objects are destroyed and the files closed.
Done ==
    /\ pc = "Done"
    /\ Decompressor' = [Decompressor EXCEPT !.global_state = "destroyed"]
    /\ Compressor' = [Compressor EXCEPT !.global_state = "destroyed"]
    /\ pc' = "exit"
    /\ UNCHANGED <<codecVars, argv, InFile, OutFile, optVars, faxVars, profVars, fmtVars, dwFlags,
                   xform, bufVars, err>>

Next ==
    \/ HandleSwitches
    \/ EndOfSwitches
    \/ OpenInput
    \/ OpenOutput
    \/ InputPixelType
    \/ OpenProfiles
    \/ CheckColorSpace
    \/ OutputFormat
    \/ CreateTransform
    \/ PreserveResolution
    \/ StartStreams
    \/ WriteMarkers
    \/ AllocBuffers
    \/ ReadScanline
    \/ TransformScanline
    \/ WriteScanline
    \/ FreeBuffers
    \/ FinishStreams
    \/ CopySourceMarkers
    \/ CloseProfiles
    \/ Done

Spec == Init /\ [][Next]_vars

(***************************************************************************)
(* The fax codec on its own: Lab2ITU followed by ITU2Lab on Lab values of  *)
(* the fax envelope, and PCS2ITU on the nodes the CLUT sampler visits.     *)
(***************************************************************************)
ChannelSamples(lo, hi) ==
    UNION {{Rat(n, d) : n \in {lo * d, lo * d + 1, 0 - 1, 0, 1, hi * d - 1, hi * d}
                                 \cap ((lo * d)..(hi * d))} : d \in 1..MaxDenominator}

EnvelopeSamples ==
    [L : ChannelSamples(0, 100), a : ChannelSamples(0 - 85, 85), b : ChannelSamples(0 - 75, 125)]

\* The 16-bit value of node i of a grid of GRID_POINTS nodes per channel.
GridNode(i) == (2 * i * 65535 + (GRID_POINTS - 1)) \div (2 * (GRID_POINTS - 1))
GridNodes == {GridNode(i) : i \in 0..(GRID_POINTS - 1)}
PCSSamples ==
    {<<L, a, b>> : L \in {GridNode(0), GridNode(GRID_POINTS - 1)}, a \in GridNodes, b \in GridNodes}

FaxInit ==
    /\ argv = <<>>
    /\ InFile = <<>>
    /\ Globals
    /\ \/ /\ stage = "Lab2ITU"
          /\ Lab \in EnvelopeSamples
          /\ PCS = <<0, 0, 0>>
       \/ /\ stage = "PCS2ITU"
          /\ PCS \in PCSSamples
          /\ Lab = ZeroLab
    /\ ITU = <<0, 0, 0>>
    /\ Decoded = ZeroLab

mainVars ==
    <<argv, InFile, OutFile, optVars, faxVars, Decompressor, Compressor,
      profVars, fmtVars, dwFlags, xform, bufVars, pc, err>>

CallLab2ITU ==
    /\ stage = "Lab2ITU"
    /\ \E conv \in Conversions : ITU' = Lab2ITU(Lab, conv)
    /\ stage' = "ITU2Lab"
    /\ UNCHANGED <<mainVars, PCS, Lab, Decoded>>

CallITU2Lab ==
    /\ stage = "ITU2Lab"
    /\ Decoded' = ITU2Lab(ITU)
    /\ stage' = "decoded"
    /\ UNCHANGED <<mainVars, PCS, Lab, ITU>>

CallPCS2ITU ==
    /\ stage = "PCS2ITU"
    /\ \E conv \in Conversions :
          /\ Lab' = PCS2ITU(PCS, conv).Lab
          /\ ITU' = PCS2ITU(PCS, conv).Out
    /\ stage' = "sampled"
    /\ UNCHANGED <<mainVars, PCS, Decoded>>

FaxNext ==
    \/ CallLab2ITU
    \/ CallITU2Lab
    \/ CallPCS2ITU

FaxSpec == FaxInit /\ [][FaxNext]_vars

(***************************************************************************)
(* Properties.                                                             *)
(***************************************************************************)
IsRow(x) == x.kind = "row"
IsEOI(x) == x.kind = "EOI"
RowsWritten == SelectSeq(OutFile, IsRow)
EOIWritten == \E n \in 1..Len(OutFile) : IsEOI(OutFile[n])

\* What was written after the end of the image.
AfterEOI ==
    IF EOIWritten
    THEN SubSeq(OutFile, 1 + (CHOOSE n \in 1..Len(OutFile) : IsEOI(OutFile[n])),
                Len(OutFile))
    ELSE <<>>

AfterCopy == {"CloseProfiles", "Done", "exit"}
AfterLoop == {"FinishStreams", "CopyMarkers"} \cup AfterCopy

\* C1: the markers jcopy_markers_execute emits are the source markers in
\* their order, tag and payload unchanged, without the APP0 markers of 5
\* bytes or more that start with "JFIF\0" when the destination writes its
\* JFIF header and without the APP14 markers of 5 bytes or more that start
\* with "Adobe" when the destination writes its Adobe marker; nothing else
\* is dropped, doubled or moved.
C1_DuplicateJFIF(m) ==
    /\ m.marker = 224
    /\ Len(m.data) >= 5
    /\ <<m.data[1], m.data[2], m.data[3], m.data[4], m.data[5]>> = <<74, 70, 73, 70, 0>>

C1_DuplicateAdobe(m) ==
    /\ m.marker = 238
    /\ Len(m.data) >= 5
    /\ <<m.data[1], m.data[2], m.data[3], m.data[4], m.data[5]>> = <<65, 100, 111, 98, 101>>

C1_Kept(m) ==
    /\ ~(Compressor.write_JFIF_header /\ C1_DuplicateJFIF(m))
    /\ ~(Compressor.write_Adobe_marker /\ C1_DuplicateAdobe(m))

C1_MarkersCopied ==
    pc \in AfterCopy =>
        LET kept == SelectSeq(Decompressor.marker_list, C1_Kept)
        IN  AfterEOI = [n \in 1..Len(kept) |->
                          [kind |-> "marker", tag |-> kept[n].marker, data |-> kept[n].data]]

C1_Witness ==
    /\ pc = "CloseProfiles"
    /\ Len(Decompressor.marker_list) = 2
    /\ Len(AfterEOI) = 1
    /\ \E n \in 1..2 : C1_DuplicateAdobe(Decompressor.marker_list[n])
                        \/ C1_DuplicateJFIF(Decompressor.marker_list[n])

\* C2: for a source of H rows the scanline loop ends after exactly H turns;
\* each turn reads one row, then applies the transform once, then writes one
\* row, so the k-th row written is the transform of the k-th row read; the
\* two row buffers are allocated once before the first turn and freed once
\* after the last.
C2_Rows(n) ==
    [k \in 1..n |-> [kind |-> "row", tag |-> 0, data |-> <<k, T_COLORSPACE(wOutput)>>]]

C2_ScanlineLoop ==
    /\ calls.mallocs \in {0, 2}
    /\ calls.frees \in {0, 2}
    /\ (Decompressor.output_scanline > 0 \/ calls.transforms > 0 \/ RowsWritten # <<>>)
          => calls.mallocs = 2
    /\ pc \in {"Loop", "Transform", "Write"} =>
          /\ calls.mallocs = 2 /\ calls.frees = 0
          /\ ScanLineIn.state = "allocated" /\ ScanLineOut.state = "allocated"
          /\ Compressor.next_scanline = Len(RowsWritten)
          /\ Compressor.next_scanline <= InFile.image_height
          /\ RowsWritten = C2_Rows(Compressor.next_scanline)
    /\ pc = "Loop" =>
          /\ Decompressor.output_scanline = Compressor.next_scanline
          /\ calls.transforms = Compressor.next_scanline
    /\ pc = "Transform" =>
          /\ Decompressor.output_scanline = Compressor.next_scanline + 1
          /\ calls.transforms = Compressor.next_scanline
          /\ ScanLineIn.data = <<Decompressor.output_scanline>>
    /\ pc = "Write" =>
          /\ Decompressor.output_scanline = Compressor.next_scanline + 1
          /\ calls.transforms = Compressor.next_scanline + 1
          /\ ScanLineOut.data = <<Decompressor.output_scanline, T_COLORSPACE(wOutput)>>
    /\ pc \in AfterLoop =>
          /\ Decompressor.output_scanline = InFile.image_height
          /\ Compressor.next_scanline = InFile.image_height
          /\ calls.transforms = InFile.image_height
          /\ RowsWritten = C2_Rows(InFile.image_height)
          /\ calls.mallocs = 2 /\ calls.frees = 2
          /\ ScanLineIn.state = "freed" /\ ScanLineOut.state = "freed"
    /\ calls.frees > 0 => pc \in AfterLoop

C2_Witness ==
    /\ pc = "exit"
    /\ InFile.image_height >= 2
    /\ Len(RowsWritten) = InFile.image_height

\* C3: in a conversion the phases come in the order Idle, Streaming,
\* Finished: the resolution fields are copied from the source before the
\* destination stream is started; the fax marker and the embedded profile are
\* written after the destination is started and before the first row; no row
\* is read or written after a stream is finalized; the source markers are
\* copied only after both streams are finalized.
Started(c) == c.global_state \in {"scanning", "finished", "destroyed"}
Finalized(c) == c.global_state \in {"finished", "destroyed"}

C3_NoEOIBefore(n) == \A m \in 1..(n - 1) : ~IsEOI(OutFile[m])

C3_PhaseOrder ==
    /\ Started(Compressor) =>
          /\ Compressor.X_density = Decompressor.X_density
          /\ Compressor.Y_density = Decompressor.Y_density
          /\ Compressor.density_unit = Decompressor.density_unit
          /\ \A n \in 1..Len(OutFile) :
                OutFile[n].kind = "JFIF" =>
                    OutFile[n].data = <<Decompressor.density_unit, Decompressor.X_density,
                                         Decompressor.Y_density>>
    /\ OutFile # <<>> => Started(Compressor) /\ OutFile[1].kind = "SOI"
    /\ \A n \in 1..Len(OutFile) :
          /\ IsRow(OutFile[n]) => C3_NoEOIBefore(n)
          /\ (OutFile[n].kind = "marker" /\ C3_NoEOIBefore(n)) =>
                \A m \in 1..(n - 1) : ~IsRow(OutFile[m])
          /\ (OutFile[n].kind = "marker" /\ ~C3_NoEOIBefore(n)) =>
                Finalized(Compressor) /\ Finalized(Decompressor)
    /\ (Finalized(Compressor) \/ Finalized(Decompressor)) =>
          /\ pc \in {"CopyMarkers"} \cup AfterCopy
          /\ EOIWritten
    /\ pc = "CopyMarkers" => Finalized(Compressor) /\ Finalized(Decompressor)
    /\ (Decompressor.output_scanline > 0 \/ Compressor.next_scanline > 0) =>
          Started(Compressor) /\ Started(Decompressor)

C3_Witness ==
    /\ pc = "exit"
    /\ RowsWritten # <<>>
    /\ AfterEOI # <<>>
    /\ Decompressor.density_unit # 0
    /\ \E n \in 1..Len(OutFile) : OutFile[n].kind = "marker" /\ C3_NoEOIBefore(n)

\* Where main is while the profiles TransformImage opened are open, and the
\* part of it after the output color space is known.
ProfilesOpen ==
    {"CheckColorSpace", "OutputFormat", "CreateTransform", "PreserveResolution",
     "StartStreams", "WriteMarkers", "AllocBuffers", "Loop", "Transform", "Write",
     "FinishStreams", "CopyMarkers", "CloseProfiles"}
SpaceKnown == ProfilesOpen \ {"CheckColorSpace", "OutputFormat"}

EmbeddedInUse == ~IgnoreEmbedded /\ Decompressor.icc # "none"
IsForwardVirtual(h) == h.origin \in {"ITU2PCS", NULL}
InputIsLab == (wInput \div 65536) % 32 = 10

\* The ICC signature of the color space a pixel format declares.
SignatureOf(dw) ==
    LET space == (dw \div 65536) % 32
    IN  CASE space = 3 -> "GrayData" [] space = 4 -> "RgbData"
          [] space = 6 -> "CmykData" [] space = 10 -> "LabData"
          [] OTHER -> "none"

\* The input profile of every case but the last of the priority: embedded,
\* else configured, else the forward virtual profile for a Lab input.
C4_UpperPriority ==
    IF EmbeddedInUse THEN hIn = cmsOpenProfileFromMem(Decompressor.icc)
    ELSE IF cInpProf # NULL
         THEN IF cInpProf \in {"*Lab", "*lab", "*LAB"} THEN IsForwardVirtual(hIn)
              ELSE hIn = cmsOpenProfileFromFile(cInpProf)
         ELSE InputIsLab => IsForwardVirtual(hIn)

C4_LastCase == ~EmbeddedInUse /\ cInpProf = NULL /\ ~InputIsLab

\* The scenario of the fax-marked source converted with no profile given.
C4_FaxScenario ==
    /\ lIsITUFax
    /\ ~EmbeddedInUse
    /\ cInpProf = NULL
    /\ cOutProf = NULL

C4_FaxOutcome ==
    C4_FaxScenario =>
        /\ IsForwardVirtual(hIn)
        /\ hOut.origin = "stock:sRGB"
        /\ pc \in SpaceKnown => OutputColorSpace # 10

\* C4 as the specification states it: with no device link the input profile
\* is the embedded profile if present and not suppressed, else the configured
\* profile, else the forward virtual profile if the input format is Lab, else
\* the stock profile of the color space the input pixel format declares; a
\* fax-marked source with no profile given gets the forward virtual profile as
\* input, the stock default as output, and an output that is not Lab.
C4_StockForDeclaredSpace ==
    (pc \in ProfilesOpen /\ ~lIsDeviceLink) =>
        /\ C4_UpperPriority
        /\ C4_LastCase =>
              hIn.ColorSpace = SignatureOf(wInput)
        /\ C4_FaxOutcome

\* C4, amended: the last case of the priority is the default stock profile,
\* which is sRGB whatever color space the input pixel format declares; the
\* other cases and the fax scenario (no embedded profile in use) are as
\* stated.
C4_InputProfilePriority ==
    (pc \in ProfilesOpen /\ ~lIsDeviceLink) =>
        /\ C4_UpperPriority
        /\ C4_LastCase =>
              /\ hIn.origin = "stock:sRGB"
              /\ hIn.ColorSpace = "RgbData"
        /\ C4_FaxOutcome

C4_Witness ==
    /\ pc = "CheckColorSpace"
    /\ ~lIsDeviceLink
    /\ C4_LastCase
    /\ Decompressor.icc # "none"
    /\ SignatureOf(wInput) = "GrayData"
    /\ hIn.origin = "stock:sRGB"

\* C5: with a device link as input TransformImage opens no output profile
\* and no proofing profile, does not set the soft-proofing flag, does not use
\* the profile embedded in the source, and the output color space is the one
\* the PCS signature of the device link names; with no device link the
\* output color space is the one the color-space signature of the output
\* profile names.
C5_SpaceNamed(sig) ==
    CASE sig = "GrayData" -> 3 [] sig = "RgbData" -> 4 [] sig = "CmyData" -> 5
      [] sig = "CmykData" -> 6 [] sig = "YCbCrData" -> 7 [] sig = "LuvData" -> 8
      [] sig = "XYZData" -> 9 [] sig = "LabData" -> 10
      [] OTHER -> 0 - 1

C5_DeviceLink ==
    /\ (pc \in ProfilesOpen /\ lIsDeviceLink) =>
          /\ hOut = NullProfile
          /\ hProof = NullProfile
          /\ "cmsFLAGS_SOFTPROOFING" \notin dwFlags
          /\ hIn.origin # "embedded"
          /\ hIn = cmsOpenProfileFromFile(cInpProf)
          /\ (pc \in SpaceKnown /\ hIn # NullProfile) =>
                OutputColorSpace = C5_SpaceNamed(hIn.PCS)
    /\ (pc \in SpaceKnown /\ ~lIsDeviceLink /\ hOut # NullProfile) =>
          OutputColorSpace = C5_SpaceNamed(hOut.ColorSpace)

C5_Witness ==
    /\ pc = "CreateTransform"
    /\ lIsDeviceLink
    /\ EmbeddedInUse
    /\ cProofing # NULL
    /\ hIn.PCS = "CmykData"
    /\ OutputColorSpace = 6

\* C6: a conversion whose input profile declares a color space other than
\* the one the input pixel format declares ends in the fatal error "Input
\* profile is not operating in proper color space", with no transform built,
\* no row read and nothing written; with equal color spaces the test does
\* not fail.
ProfileMismatch == "Input profile is not operating in proper color space"

C6_Unequal == hIn # NullProfile /\ hIn.ColorSpace # SignatureOf(wInput)

C6_ProfileMismatch ==
    /\ C6_Unequal =>
          \/ pc = "CheckColorSpace"
          \/ /\ pc = "fatal"
             /\ err = ProfileMismatch
    /\ (pc = "fatal" /\ err = ProfileMismatch) =>
          /\ C6_Unequal \/ hIn = NullProfile
          /\ ~xform.built
          /\ OutFile = <<>>
          /\ Decompressor.output_scanline = 0
          /\ Compressor.next_scanline = 0
          /\ calls.transforms = 0

C6_Witness ==
    /\ pc = "fatal"
    /\ err = ProfileMismatch
    /\ hIn.ColorSpace = "CmykData"
    /\ SignatureOf(wInput) = "LabData"

\* The markers written to the destination before its first row.
IsMarker(x) == x.kind = "marker"
BeforeRows ==
    LET rest == {n \in 1..Len(OutFile) : IsRow(OutFile[n]) \/ IsEOI(OutFile[n])}
        last == IF rest = {} THEN Len(OutFile)
                ELSE (CHOOSE n \in rest : \A m \in rest : n <= m) - 1
    IN  SelectSeq(SubSeq(OutFile, 1, last), IsMarker)

MarkersWritten == SpaceKnown \ {"CreateTransform", "PreserveResolution", "StartStreams",
                                "WriteMarkers"}

\* C7: when and only when the output color space is Lab, exactly one APP1
\* marker is written before the first row, and its payload is the 10 bytes
\* 'G3FAX\0', the version 0x07 0xCA and the resolution 0x00 0xC8.
C7_IsAPP1(x) == x.tag = 225

C7_FaxMarkerDefaults ==
    pc \in MarkersWritten =>
        LET app1 == SelectSeq(BeforeRows, C7_IsAPP1)
        IN  IF OutputColorSpace = 10
            THEN app1 = <<[kind |-> "marker", tag |-> 225,
                           data |-> <<71, 51, 70, 65, 88, 0, 7, 202, 0, 200>>]>>
            ELSE app1 = <<>>

\* C8: for every source with a Photoshop APP13 block that holds a well-formed
\* resolution record (type 0x03ED, length 16) whose 16.16 values encode X and
\* Y, the source's X_density is the integer part of X, its Y_density the
\* integer part of Y and its density unit 1 (pixels per inch), and the
\* destination receives these values.
C8_Blocks ==
    {[payload |-> PhotoshopHeader \o ResolutionRecord(x, y), X |-> x.h, Y |-> y.h] :
        x \in FixedSamples, y \in FixedSamples}

C8_ResolutionExtracted ==
    \A n \in 1..Len(InFile.marker_list), b \in C8_Blocks :
        (/\ pc \in {"OpenProfiles"} \cup ProfilesOpen
         /\ InFile.marker_list[n] = [marker |-> 237, data |-> b.payload]) =>
            /\ Decompressor.X_density = b.X
            /\ Decompressor.Y_density = b.Y
            /\ Decompressor.density_unit = 1
            /\ Started(Compressor) =>
                  /\ Compressor.X_density = b.X
                  /\ Compressor.Y_density = b.Y
                  /\ Compressor.density_unit = 1

\* C9: when the source has no Photoshop APP13 block, or only malformed ones
\* (a wrong resource signature, no record of type 0x03ED, a record of that
\* type shorter than 16 bytes), the density fields of the source stay as
\* they were read and the conversion goes on without error.
C9_IsAPP13(m) == m.marker = 237

C9_NoUsableBlock ==
    \A n \in 1..Len(InFile.marker_list) :
        C9_IsAPP13(InFile.marker_list[n]) =>
            InFile.marker_list[n].data \in MalformedPayloads \cup BrokenPayloads

C9_MalformedIgnored ==
    C9_NoUsableBlock =>
        /\ pc \notin {"hang", "crashed"}
        /\ pc \in {"OpenProfiles"} \cup ProfilesOpen =>
              /\ Decompressor.X_density = InFile.X_density
              /\ Decompressor.Y_density = InFile.Y_density
              /\ Decompressor.density_unit = InFile.density_unit

\* C10: every pixel format the pipeline produces, the input one of
\* GetInputPixelType and the output one of ComputeOutputFormatDescriptor,
\* has the channel count of its color space: Gray 1, RGB, Lab and YCbCr 3,
\* CMYK 4.
C10_Canonical(space) ==
    CASE space = 3 -> 1
      [] space \in {4, 7, 10} -> 3
      [] space = 6 -> 4
      [] OTHER -> 0

C10_ChannelsOf(dw) == (dw \div 8) % 16
C10_SpaceOf(dw) == (dw \div 65536) % 32

C10_CanonicalChannels ==
    /\ pc \in {"OpenProfiles"} \cup ProfilesOpen =>
          C10_ChannelsOf(wInput) = C10_Canonical(C10_SpaceOf(wInput))
    /\ pc \in SpaceKnown =>
          C10_ChannelsOf(wOutput) = C10_Canonical(C10_SpaceOf(wOutput))

\* C11: each of the precalculation modes 0, 1, 2 and 3 can be chosen with
\* the 'c' switch: the value is accepted, and the transform is built with
\* the flag of the mode (0 no-optimize, 1 none, 2 high-resolution precalc,
\* 3 low-resolution precalc).
C11_PrecalcFlags ==
    {"cmsFLAGS_NOOPTIMIZE", "cmsFLAGS_HIGHRESPRECALC", "cmsFLAGS_LOWRESPRECALC"}

C11_FlagsOfMode(mode) ==
    CASE mode = 0 -> {"cmsFLAGS_NOOPTIMIZE"}
      [] mode = 1 -> {}
      [] mode = 2 -> {"cmsFLAGS_HIGHRESPRECALC"}
      [] mode = 3 -> {"cmsFLAGS_LOWRESPRECALC"}
      [] OTHER -> C11_PrecalcFlags

C11_PrecalcModes ==
    /\ (pc = "fatal" /\ err = "Unknown precalc mode") => PrecalcMode \notin 0..3
    /\ xform.built =>
          /\ PrecalcMode \in 0..3
          /\ xform.dwFlags \cap C11_PrecalcFlags = C11_FlagsOfMode(PrecalcMode)

\* C12: a Lab value of the fax envelope (L in 0..100, a in -85..85, b in
\* -75..125) that is encoded by Lab2ITU and decoded by ITU2Lab comes back, in
\* each channel, at most one 16-bit step of the channel's full scale (100,
\* 170, 200 over 65535) away, and never above the original, because the
\* encoder truncates toward minus infinity.
C12_Within(x, y, scale) ==
    /\ x.n * 65535 - y.n * x.d >= 0
    /\ x.n * 65535 - y.n * x.d <= scale * x.d
C12_RoundTrip ==
    stage = "decoded" =>
        /\ Decoded.L.d = 65535 /\ Decoded.a.d = 65535 /\ Decoded.b.d = 65535
        /\ C12_Within(Lab.L, Decoded.L, 100)
        /\ C12_Within(Lab.a, Decoded.a, 170)
        /\ C12_Within(Lab.b, Decoded.b, 200)
C12_Witness ==
    /\ stage = "decoded"
    /\ Lab.a.n < 0
    /\ Lab.L.n * 65535 - Decoded.L.n * Lab.L.d > 0
    /\ Lab.b.n * 65535 - Decoded.b.n * Lab.b.d > 0

\* C13: for every 16-bit PCS triple given to PCS2ITU, the Lab value handed to
\* the fax encoder after gamut mapping has a in -85..85 and b in -75..125 (a
\* value already inside is left unchanged), so the three values Lab2ITU
\* computes lie in 0..65535 and are stored without wrapping around.
C13_InEnvelope(lab) ==
    /\ ~RatLess(lab.a, Rat(0 - 85, 1)) /\ ~RatLess(Rat(85, 1), lab.a)
    /\ ~RatLess(lab.b, Rat(0 - 75, 1)) /\ ~RatLess(Rat(125, 1), lab.b)
C13_Codes(lab) ==
    <<FaxEncode(lab.L, 100, 0), FaxEncode(lab.a, 170, 32768), FaxEncode(lab.b, 200, 24576)>>
C13_Unchanged ==
    (stage = "sampled" /\ C13_InEnvelope(cmsLabEncoded2Float(PCS))) =>
        /\ Lab.a = cmsLabEncoded2Float(PCS).a
        /\ Lab.b = cmsLabEncoded2Float(PCS).b
C14_Complete(hProfile, origin) ==
    /\ hProfile.origin = origin
    /\ hProfile.ColorSpace = "LabData"
    /\ hProfile.PCS = "LabData"
    /\ hProfile.nodes = 33 * 33 * 33
C14_InputSynthesized ==
    /\ ~lIsDeviceLink
    /\ ~EmbeddedInUse
    /\ DefaultInput(cInpProf, wInput) # NULL
    /\ IsLabName(DefaultInput(cInpProf, wInput))
C14_OutputSynthesized == ~lIsDeviceLink /\ cOutProf # NULL /\ IsLabName(cOutProf)
C14_AllOrNothing ==
    pc \in ProfilesOpen =>
        /\ C14_InputSynthesized => C14_Complete(hIn, "ITU2PCS")
        /\ C14_OutputSynthesized => C14_Complete(hOut, "PCS2ITU")
C14_OnlyOnAllocation ==
    \A alloc \in AllocOutcomes :
        (alloc.pipeline /\ alloc.stage /\ alloc.placeholder /\ alloc.tag) =>
            /\ C14_Complete(CreateITU2PCS_ICC(alloc), "ITU2PCS")
            /\ C14_Complete(CreatePCS2ITU_ICC(alloc), "PCS2ITU")

\* C15: a device link and separate input/output profiles exclude each other.
\* An 'i' or 'o' switch that comes after an 'l' ends the program with
\* "Device-link already specified"; an 'l' that comes after an 'i', an 'o' or
\* another 'l' ends it with "input/output profiles already specified"; an
\* accepted 'l' makes its argument the input profile.  So wherever the
\* program has not ended in a fatal error and a device link is set, no output
\* profile is set and the input profile name is the link's, and neither
\* changes any more.
C15_Turn(letters) == pc = "HandleSwitches" /\ argv # <<>> /\ Head(argv).sw \in letters
C15_Fatal(msg) == pc' = "fatal" /\ err' = msg
C15_Step ==
    /\ (C15_Turn({"i", "o"}) /\ lIsDeviceLink) => C15_Fatal("Device-link already specified")
    /\ (C15_Turn({"l"}) /\ (cInpProf # NULL \/ cOutProf # NULL))
          => C15_Fatal("input/output profiles already specified")
    /\ (C15_Turn({"l"}) /\ cInpProf = NULL /\ cOutProf = NULL)
          => /\ lIsDeviceLink' /\ cInpProf' = Head(argv).arg /\ cOutProf' = NULL
             /\ pc' = "HandleSwitches"
    /\ (C15_Turn({"i", "o"}) /\ ~lIsDeviceLink)
          => /\ ~lIsDeviceLink' /\ pc' = "HandleSwitches"
             /\ Head(argv).arg \in {cInpProf', cOutProf'}
    /\ lIsDeviceLink => UNCHANGED <<lIsDeviceLink, cInpProf, cOutProf>>
    /\ (pc' # "fatal" /\ lIsDeviceLink') => (cOutProf' = NULL /\ cInpProf' # NULL)
C15_Exclusive == [][C15_Step]_vars
C15_Witness ==
    /\ pc = "fatal"
    /\ err = "input/output profiles already specified"
    /\ lIsDeviceLink
    /\ argv # <<>> /\ Head(argv).sw = "i"

\* C16: while it scans the payload of a Photoshop APP13 marker,
\* ProcessPhotoshopAPP13 reads no byte outside 0 .. datalen - 1, and the
\* offset it scans from is strictly larger at each turn of its loop, so the
\* scan ends.
C16_Increasing(offsets) ==
    \A n \in 1..Len(offsets) : n > 1 => offsets[n - 1] < offsets[n]
C16_Scanned == pc \in {"hang", "crashed", "OpenProfiles"} \cup ProfilesOpen
C16_ScanInBounds ==
    C16_Scanned =>
        \A junk \in JunkBytes :
            LET app13 == HandlePhotoshopAPP13(Decompressor.marker_list, junk)
            IN  /\ ~ReadsOutside(app13.scan, app13.datalen)
                /\ ~app13.scan.hang
                /\ C16_Increasing(app13.scan.offsets)

====
